---- MODULE Spec2Model ----
(***************************************************************************)
(* Back-tracking Armijo line search (lnsrch_armijo) and the damped         *)
(* Gauss-Newton solver (gn) of mor/opt/gn.py, for one unknown and one      *)
(* residual (n = m = 1).                                                   *)
(*                                                                         *)
(* Numbers.  Residual, Jacobian and gradient values are integers.  Points  *)
(* and directions are IEEE-like values: a record [k, v] that is finite     *)
(* ("fin", v an integer counting units of 1/SCALE), NaN or +-Inf.  SCALE   *)
(* is a power of two large enough that every x0 + alpha*p the model forms  *)
(* is exact.  A tolerance is [n, e], the number n * 10^(-e).               *)
(*                                                                         *)
(* The callables f and F are arbitrary functions: fmap and Fmap record the *)
(* value chosen for a point the first time it is evaluated, and every      *)
(* later evaluation of that point returns the recorded value.  A call of   *)
(* lnsrch_armijo keeps every value.  gn keeps, from one pass of its loop   *)
(* to the next, the values at x0 and at the current x; at any other point  *)
(* a later pass may see any value, the recorded one included.  A caller's  *)
(* trajectory or gnsolver may return any of a few values at each call.     *)
(*                                                                         *)
(* pc is the place in the code; gnv holds gn's arguments and locals, ls    *)
(* those of the running lnsrch_armijo call, lsret and ret what the two     *)
(* functions returned, err the exception raised.  calls, hist (the passes  *)
(* of the running line search), gnv.solved (dx as the direction solver     *)
(* returned it) and gnv.fallback (the descent test's outcome) only record  *)
(* what happened.                                                          *)
(***************************************************************************)
EXTENDS Integers, Sequences, FiniteSets, TLC

VARIABLES pc, gnv, ls, lsret, ret, err, fmap, Fmap, calls, hist

vars == <<pc, gnv, ls, lsret, ret, err, fmap, Fmap, calls, hist>>

----------------------------------------------------------------------------
(* Bounds of the model *)

\* largest maxiter a call of gn is given
MaxOuter == 2

\* largest maxiter a call of lnsrch_armijo is given; gn's own call of the
\* line search runs with this many trials in place of the default of 40
LsMaxIter == 2

\* bt_factor = 1/BtDen
BtDen == 2

\* one unit of actual length, in the units points and directions are counted in
SCALE == 2 ^ LsMaxIter

\* values a residual / objective evaluation can return
ResVals == 0 .. 3

\* values a Jacobian evaluation can return (each divides SCALE)
JacVals == {-1, 0, 2}

----------------------------------------------------------------------------
(* IEEE-like values *)

Fin(n) == [k |-> "fin", v |-> n]
NaN == [k |-> "nan", v |-> 0]
PInf == [k |-> "inf", v |-> 1]
NInf == [k |-> "inf", v |-> -1]

Abs(n) == IF n < 0 THEN -n ELSE n

Sgn(n) == IF n < 0 THEN -1 ELSE IF n > 0 THEN 1 ELSE 0

\* np.isfinite
IsFinite(a) == a.k = "fin"

\* np.inner(g, p) for a finite gradient g and a direction p
Inner(g, p) ==
    CASE p.k = "fin" -> Fin(g * p.v)
      [] p.k = "nan" -> NaN
      [] p.k = "inf" -> IF g = 0 THEN NaN ELSE [k |-> "inf", v |-> Sgn(g) * p.v]

\* a > 0 and a >= 0 in floating point: every comparison with NaN is false
Gt0(a) == a.k # "nan" /\ a.v > 0
Ge0(a) == a.k # "nan" /\ a.v >= 0

\* np.linalg.norm of a 1-vector
Norm(a) ==
    CASE a.k = "fin" -> Fin(Abs(a.v))
      [] a.k = "nan" -> NaN
      [] a.k = "inf" -> PInf

\* a >= n for an integer n
GeInt(a, n) ==
    CASE a.k = "fin" -> a.v >= n
      [] a.k = "nan" -> FALSE
      [] a.k = "inf" -> a.v > 0

\* a tolerance n * 10^(-e)
Tol(n, e) == [n |-> n, e |-> e]

\* a < t and a <= t for a norm a counted in units of 1/scale.  For e > 8 the
\* products would leave 32 bits; there t.n * scale < 10^e, so a nonzero a
\* (at least one unit) is above t.
LtTol(a, t, scale) ==
    /\ a.k = "fin"
    /\ IF a.v = 0 THEN t.n > 0
       ELSE IF t.e > 8 THEN FALSE
       ELSE a.v * (10 ^ t.e) < t.n * scale

LeTol(a, t, scale) ==
    /\ a.k = "fin"
    /\ IF a.v = 0 THEN TRUE
       ELSE IF t.e > 8 THEN FALSE
       ELSE a.v * (10 ^ t.e) <= t.n * scale

----------------------------------------------------------------------------
(* Evaluations of the callables *)

\* what an evaluation of f at a point does: return v, or raise BadStep
FOut == [bad : {FALSE}, v : ResVals] \cup {[bad |-> TRUE, v |-> 0]}

\* f is a function: a point evaluated before gives the same outcome again
Consistent(map, x, r) == x \in DOMAIN map => map[x] = r

Extend(map, x, r) == [y \in DOMAIN map \cup {x} |-> IF y = x THEN r ELSE map[y]]

\* the objective the line search minimises: f itself when lnsrch_armijo is
\* called directly, lambda x: np.linalg.norm(f(x)) when gn calls it
Objective(caller, v) == IF caller = "gn" THEN Abs(v) ELSE v

\* trajectory = lambda x0, p, t: x0 + t * p, for t = t.n / t.d > 0
DefaultTrajectory(x0, p, t) ==
    CASE p.k = "fin" -> Fin(x0.v + (t.n * p.v) \div t.d)
      [] p.k = "nan" -> NaN
      [] p.k = "inf" -> p

\* what a call trajectory(x0, p, t) can do: return a point, or raise BadStep
TrajOut(mode, x0, p, t) ==
    IF mode = "default"
    THEN {[bad |-> FALSE, x |-> DefaultTrajectory(x0, p, t)]}
    ELSE {[bad |-> FALSE, x |-> y] :
             y \in {DefaultTrajectory(x0, p, t), Fin(x0.v + SCALE)}}
         \cup {[bad |-> TRUE, x |-> x0]}

\* the values kept of a callable: those at the points in S
Restrict(map, S) == [y \in DOMAIN map \cap S |-> map[y]]

\* calls is the set of the callables called so far
Called(c, what) == c \cup what

NoCalls == {}

----------------------------------------------------------------------------
(* lnsrch_armijo *)

One == [n |-> 1, d |-> 1]
Zero == [n |-> 0, d |-> 1]

\* the locals of a call lnsrch_armijo(f, g, p, x0, bt_factor, ftol, maxiter, trajectory)
LsCall(caller, g, p, x0, ftol, maxiter, trajectory) ==
    [caller |-> caller, g |-> g, p |-> p, x0 |-> x0, ftol |-> ftol,
     maxiter |-> maxiter, trajectory |-> trajectory,
     dg |-> Fin(0), alpha |-> One, fx0 |-> 0, x |-> x0, fx |-> PInf,
     success |-> FALSE, it |-> 0]

LsIdle == LsCall("none", 0, Fin(0), Fin(0), Tol(1, 4), 0, "default")

NoReturn == [x |-> Fin(0), alpha |-> Zero, fx |-> Fin(0)]

\* if dg > 0: raise
NotDescent(dg) == Gt0(dg)

\* Armijo with the sign of the decrease term slipped: fx < fx0 - alpha*ftol*dg
ArmijoSignSlip(fx, fx0, alpha, ftol, dg) ==
    CASE dg.k = "fin" ->
           (fx - fx0) * alpha.d * (10 ^ ftol.e) * SCALE < -(alpha.n * ftol.n * dg.v)
      [] dg.k = "nan" -> FALSE
      [] dg.k = "inf" -> dg.v < 0

\* fx < fx0 + alpha * ftol * dg, with dg counted in units of 1/SCALE
Armijo(fx, fx0, alpha, ftol, dg) ==
    CASE dg.k = "fin" ->
           (fx - fx0) * alpha.d * (10 ^ ftol.e) * SCALE < alpha.n * ftol.n * dg.v
      [] dg.k = "nan" -> FALSE
      [] dg.k = "inf" -> dg.v > 0

\* the loop body without its except clause
PropagatesBadStep == FALSE

\* except BadStep: pass
CatchesBadStep == TRUE

\* alpha *= bt_factor
Backtrack(alpha) == [alpha EXCEPT !.d = @ * BtDen]

\* the record hist keeps of one pass of the loop: the step length tried, how
\* the pass ended ("ok": Armijo holds, "fail": it does not, "badstep": BadStep
\* was raised and caught), and x and fx after it
Trial(alpha, out, x, fx) == [alpha |-> alpha, out |-> out, x |-> x, fx |-> fx]

\* lines 39-48: the descent check, then fx0 = f(x0) and the loop's initial state
LsEnter ==
    /\ pc = "ls_enter"
    /\ LET dg == Inner(ls.g, ls.p) IN
       IF NotDescent(dg)
       THEN /\ pc' = "raised"
            /\ err' = "InvalidDirection"
            /\ ls' = [ls EXCEPT !.dg = dg]
            /\ UNCHANGED <<fmap, calls>>
       ELSE \E r \in FOut :
              /\ Consistent(fmap, ls.x0, r)
              /\ fmap' = Extend(fmap, ls.x0, r)
              /\ calls' = Called(calls, {"f"})
              /\ IF r.bad
                 THEN /\ pc' = "raised"
                      /\ err' = "BadStep"
                      /\ ls' = [ls EXCEPT !.dg = dg]
                 ELSE /\ pc' = "ls_loop"
                      /\ err' = err
                      /\ ls' = [ls EXCEPT !.dg = dg, !.alpha = One,
                                          !.fx0 = Objective(ls.caller, r.v),
                                          !.x = ls.x0, !.fx = PInf,
                                          !.success = FALSE, !.it = 0]
    /\ hist' = << >>
    /\ UNCHANGED <<gnv, lsret, ret, Fmap>>

\* lines 49-59: one pass of the loop body
LsTrial ==
    /\ pc = "ls_loop"
    /\ ~ls.success
    /\ ls.it < ls.maxiter
    /\ \E t \in TrajOut(ls.trajectory, ls.x0, ls.p, ls.alpha) :
         IF t.bad
         THEN \* trajectory raised BadStep: x and fx keep their values
              /\ calls' = Called(calls, {"trajectory"})
              /\ fmap' = fmap
              /\ hist' = Append(hist, Trial(ls.alpha, "badstep", ls.x, ls.fx))
              /\ IF CatchesBadStep
                 THEN /\ ls' = [ls EXCEPT !.alpha = Backtrack(@), !.it = @ + 1]
                      /\ UNCHANGED <<pc, err>>
                 ELSE /\ pc' = "raised"
                      /\ err' = "BadStep"
                      /\ ls' = ls
         ELSE \E r \in FOut :
              /\ Consistent(fmap, t.x, r)
              /\ fmap' = Extend(fmap, t.x, r)
              /\ calls' = Called(calls, {"trajectory", "f"})
              /\ IF r.bad
                 THEN \* f raised BadStep: x is the trial point, fx keeps its value
                      /\ hist' = Append(hist, Trial(ls.alpha, "badstep", t.x, ls.fx))
                      /\ IF CatchesBadStep
                         THEN /\ ls' = [ls EXCEPT !.x = t.x, !.alpha = Backtrack(@),
                                                  !.it = @ + 1]
                              /\ UNCHANGED <<pc, err>>
                         ELSE /\ pc' = "raised"
                              /\ err' = "BadStep"
                              /\ ls' = [ls EXCEPT !.x = t.x]
                 ELSE LET fx == Objective(ls.caller, r.v) IN
                      /\ UNCHANGED <<pc, err>>
                      /\ IF Armijo(fx, ls.fx0, ls.alpha, ls.ftol, ls.dg)
                         THEN /\ ls' = [ls EXCEPT !.x = t.x, !.fx = Fin(fx),
                                                  !.success = TRUE]
                              /\ hist' = Append(hist, Trial(ls.alpha, "ok", t.x, Fin(fx)))
                         ELSE /\ ls' = [ls EXCEPT !.x = t.x, !.fx = Fin(fx),
                                                  !.alpha = Backtrack(@), !.it = @ + 1]
                              /\ hist' = Append(hist, Trial(ls.alpha, "fail", t.x, Fin(fx)))
    /\ UNCHANGED <<gnv, lsret, ret, Fmap>>

\* lines 61-66: what the call returns
LsResult(l) ==
    IF ~l.success
    THEN [x |-> l.x0, alpha |-> Zero, fx |-> Fin(l.fx0)]
    ELSE [x |-> l.x, alpha |-> l.alpha, fx |-> l.fx]

LsReturn ==
    /\ pc = "ls_loop"
    /\ ls.success \/ ls.it >= ls.maxiter
    /\ lsret' = LsResult(ls)
    /\ pc' = IF ls.caller = "gn" THEN "gn_update" ELSE "done"
    /\ UNCHANGED <<gnv, ls, ret, err, fmap, Fmap, calls, hist>>

----------------------------------------------------------------------------
(* lnsrch_armijo called directly *)

\* ftol: 1e-4 (the default) and 0.5
FtolVals == {Tol(1, 4), Tol(5, 1)}

\* directions, in whole units
DirVals == {Fin(d * SCALE) : d \in -1 .. 1}

InitLS ==
    /\ pc = "ls_enter"
    /\ gnv = [x0 |-> Fin(0)]
    /\ \E g \in -1 .. 1, p \in DirVals, ftol \in FtolVals,
          maxiter \in 0 .. LsMaxIter, trajectory \in {"default", "custom"} :
         ls = LsCall("top", g, p, Fin(0), ftol, maxiter, trajectory)
    /\ lsret = NoReturn
    /\ ret = [x |-> NaN, info |-> -1]
    /\ err = "none"
    /\ fmap = << >>
    /\ Fmap = << >>
    /\ calls = NoCalls
    /\ hist = << >>

NextLS == LsEnter \/ LsTrial \/ LsReturn

SpecLS == InitLS /\ [][NextLS]_vars

----------------------------------------------------------------------------
(* gn *)

\* tol: 1e-5 (the default) and 0.5;  tol_normdx: 1e-12 (the default) and 2
TolVals == {Tol(1, 5), Tol(5, 1)}
TolNormdxVals == {Tol(1, 12), Tol(2, 0)}

\* the 1e-14 of  tol = max(tol*normgrad, 1e-14)
TolFloor == Tol(1, 14)

\* max(tol*normgrad, 1e-14): every positive tol*normgrad the model forms is
\* at least 1e-5, so the maximum is the floor only when the product is zero
RescaleTol(tol, normgrad) ==
    IF tol.n * normgrad > 0 THEN Tol(tol.n * normgrad, tol.e) ELSE TolFloor

\* the guard with maxiter = 0 let through
DegenerateStrict(maxiter) == maxiter < 0

\* if maxiter <= 0: return x0, 4
Degenerate(maxiter) == maxiter <= 0

\* sp.linalg.lstsq(F_eval, -f_eval) for a 1x1 system: the minimum-norm
\* solution, counted in units of 1/SCALE
Lstsq(F, f) == IF F = 0 THEN Fin(0) ELSE Fin((-f * Sgn(F) * SCALE) \div Abs(F))

\* what the direction solver can return: lstsq's solution, or what a caller's
\* gnsolver returns: a unit step (uphill or downhill as the gradient's sign
\* makes it), NaN or +Inf
SolverOut(mode, F, f) ==
    IF mode = "default"
    THEN {Lstsq(F, f)}
    ELSE {Fin(SCALE), NaN, PInf}

\* cond = s[0] / s[-1] with s the one singular value |F|: numpy gives NaN for 0/0
Cond(F) == IF F = 0 THEN NaN ELSE Fin(1)

\* the descent test with > in place of >=
NotDescentStepStrict(grad, dx) == Gt0(Inner(grad, dx))

\* if np.inner(grad, dx) >= 0
NotDescentStep(grad, dx) == Ge0(Inner(grad, dx))

\* the fallback with the sign lost: dx = grad
SteepestAscent(grad) == Fin(grad * SCALE)

\* dx = -grad, counted in units of 1/SCALE
SteepestDescent(grad) == Fin(-grad * SCALE)

\* the direction handed to the line search
Direction(grad, dx) == IF NotDescentStep(grad, dx) THEN SteepestDescent(grad) ELSE dx

\* the test with > in place of >=
ResidualIncreasedStrict(f_eval_new, f_eval) == GeInt(f_eval_new, Abs(f_eval) + 1)

\* if f_eval_new >= np.linalg.norm(f_eval): residual_increased = True
ResidualIncreased(f_eval_new, f_eval) == GeInt(f_eval_new, Abs(f_eval))

\* the loop body without its third break
BreakLoopNoProgressKept(g) ==
    \/ LtTol(Fin(g.normgrad), g.tol, 1)
    \/ LtTol(g.normdx, g.tol_normdx, SCALE)

\* the three breaks at the end of the loop body
BreakLoop(g) ==
    \/ LtTol(Fin(g.normgrad), g.tol, 1)
    \/ LtTol(g.normdx, g.tol_normdx, SCALE)
    \/ g.residual_increased

\* the classification with the last pass taken to be it = maxiter
InfoOffByOne(g) ==
    IF LeTol(Fin(g.normgrad), g.tol, 1) THEN 0
    ELSE IF LeTol(g.normdx, g.tol_normdx, SCALE) THEN 1
    ELSE IF g.it = g.maxiter THEN 2
    ELSE IF GeInt(g.f_eval_new, Abs(g.f_eval)) THEN 3
    ELSE -1

\* the classification after the loop; -1 is the final raise
Info(g) ==
    IF LeTol(Fin(g.normgrad), g.tol, 1) THEN 0
    ELSE IF LeTol(g.normdx, g.tol_normdx, SCALE) THEN 1
    ELSE IF g.it = g.maxiter - 1 THEN 2
    ELSE IF GeInt(g.f_eval_new, Abs(g.f_eval)) THEN 3
    ELSE -1

\* the arguments and locals of a call gn(f, F, x0, tol, tol_normdx, maxiter, ...)
GnCall(x0, tol, tol_normdx, maxiter, trajectory, gnsolver) ==
    [x0 |-> x0, tol |-> tol, tol_normdx |-> tol_normdx, maxiter |-> maxiter,
     trajectory |-> trajectory, gnsolver |-> gnsolver,
     x |-> x0, grad |-> 0, normgrad |-> 0, normdx |-> Fin(SCALE), it |-> 0,
     residual_increased |-> FALSE, f_eval |-> 0, F_eval |-> 0,
     dx |-> Fin(0), solved |-> Fin(0), fallback |-> FALSE, cond |-> Fin(1),
     dumped |-> FALSE,
     x_new |-> x0, alpha |-> Zero, f_eval_new |-> Fin(0), normf |-> Fin(0)]

Init ==
    /\ pc = "gn_entry"
    /\ \E x0 \in {Fin(0)}, tol \in TolVals, tol_normdx \in TolNormdxVals,
          maxiter \in -1 .. MaxOuter, trajectory \in {"default", "custom"},
          gnsolver \in {"default", "custom"} :
         gnv = GnCall(x0, tol, tol_normdx, maxiter, trajectory, gnsolver)
    /\ ls = LsIdle
    /\ lsret = NoReturn
    /\ ret = [x |-> NaN, info |-> -1]
    /\ err = "none"
    /\ fmap = << >>
    /\ Fmap = << >>
    /\ calls = NoCalls
    /\ hist = << >>

\* lines 113-114
GnDegenerate ==
    /\ pc = "gn_entry"
    /\ Degenerate(gnv.maxiter)
    /\ ret' = [x |-> gnv.x0, info |-> 4]
    /\ pc' = "done"
    /\ UNCHANGED <<gnv, ls, lsret, err, fmap, Fmap, calls, hist>>

\* lines 116-132: the gradient at x0 and the rescaled tolerance.  The
\* residual is defined at x0 (f does not raise there).
GnSetup ==
    /\ pc = "gn_entry"
    /\ ~Degenerate(gnv.maxiter)
    /\ \E r \in FOut, J \in JacVals :
         /\ ~r.bad
         /\ Consistent(fmap, gnv.x0, r)
         /\ Consistent(Fmap, gnv.x0, J)
         /\ fmap' = Extend(fmap, gnv.x0, r)
         /\ Fmap' = Extend(Fmap, gnv.x0, J)
         /\ LET grad == J * r.v IN
            gnv' = [gnv EXCEPT !.x = gnv.x0, !.grad = grad, !.normgrad = Abs(grad),
                               !.tol = RescaleTol(gnv.tol, Abs(grad)),
                               !.normdx = Fin(SCALE)]
    /\ calls' = Called(calls, {"f", "F"})
    /\ pc' = "gn_solve"
    /\ UNCHANGED <<ls, lsret, ret, err, hist>>

\* lines 133-160: f_eval, F_eval, the direction solver, the dump of a
\* non-finite dx, the condition number
GnSolve ==
    /\ pc = "gn_solve"
    /\ \E r \in FOut, J \in JacVals :
         /\ ~r.bad
         /\ Consistent(fmap, gnv.x, r)
         /\ Consistent(Fmap, gnv.x, J)
         /\ fmap' = Extend(fmap, gnv.x, r)
         /\ Fmap' = Extend(Fmap, gnv.x, J)
         /\ \E dx \in SolverOut(gnv.gnsolver, J, r.v) :
              gnv' = [gnv EXCEPT !.residual_increased = FALSE,
                                 !.f_eval = r.v, !.F_eval = J,
                                 !.dx = dx, !.solved = dx,
                                 !.dumped = ~IsFinite(dx),
                                 !.cond = Cond(J)]
    /\ calls' = Called(calls, {"f", "F", "gnsolver"})
    /\ pc' = "gn_descent"
    /\ UNCHANGED <<ls, lsret, ret, err, hist>>

\* lines 162-166: the descent test, and the call of the line search
GnDescent ==
    /\ pc = "gn_descent"
    /\ LET dx == Direction(gnv.grad, gnv.dx) IN
         /\ gnv' = [gnv EXCEPT !.dx = dx,
                               !.fallback = NotDescentStep(gnv.grad, gnv.dx)]
         /\ ls' = LsCall("gn", gnv.grad, dx, gnv.x, Tol(1, 4), LsMaxIter,
                         gnv.trajectory)
    /\ calls' = Called(calls, {"linesearch"})
    /\ pc' = "ls_enter"
    /\ UNCHANGED <<lsret, ret, err, fmap, Fmap, hist>>

\* lines 166-176: the line search's result, the update of x, the new gradient
GnUpdate ==
    /\ pc = "gn_update"
    /\ LET ri == ResidualIncreased(lsret.fx, gnv.f_eval)
           x  == IF ri THEN gnv.x ELSE lsret.x
       IN \E r \in FOut, J \in JacVals :
            /\ ~r.bad
            /\ Consistent(fmap, x, r)
            /\ Consistent(Fmap, x, J)
            /\ fmap' = Restrict(Extend(fmap, x, r), {gnv.x0, x})
            /\ Fmap' = Restrict(Extend(Fmap, x, J), {gnv.x0, x})
            /\ gnv' = [gnv EXCEPT !.x_new = lsret.x, !.alpha = lsret.alpha,
                                  !.f_eval_new = lsret.fx,
                                  !.residual_increased = ri, !.x = x,
                                  !.normf = Norm(lsret.fx),
                                  !.normdx = Norm(gnv.dx),
                                  !.grad = J * r.v, !.normgrad = Abs(J * r.v)]
    /\ calls' = Called(calls, {"f", "F"})
    /\ pc' = "gn_stop"
    /\ ls' = LsIdle
    /\ hist' = << >>
    /\ UNCHANGED <<lsret, ret, err>>

\* lines 181-189 and the loop's next pass: a break, or the next it, or the
\* loop running out with it left at maxiter - 1
GnStopTests ==
    /\ pc = "gn_stop"
    /\ IF BreakLoop(gnv)
       THEN pc' = "gn_classify" /\ gnv' = gnv
       ELSE IF gnv.it + 1 < gnv.maxiter
       THEN pc' = "gn_solve" /\ gnv' = [gnv EXCEPT !.it = @ + 1]
       ELSE pc' = "gn_classify" /\ gnv' = gnv
    /\ UNCHANGED <<ls, lsret, ret, err, fmap, Fmap, calls, hist>>

\* lines 191-210
GnClassify ==
    /\ pc = "gn_classify"
    /\ IF Info(gnv) = -1
       THEN /\ pc' = "raised"
            /\ err' = "Stopping criteria not determined!"
            /\ ret' = ret
       ELSE /\ pc' = "done"
            /\ err' = err
            /\ ret' = [x |-> gnv.x, info |-> Info(gnv)]
    /\ UNCHANGED <<gnv, ls, lsret, fmap, Fmap, calls, hist>>

Next ==
    \/ GnDegenerate
    \/ GnSetup
    \/ GnSolve
    \/ GnDescent
    \/ LsEnter
    \/ LsTrial
    \/ LsReturn
    \/ GnUpdate
    \/ GnStopTests
    \/ GnClassify

Spec == Init /\ [][Next]_vars

----------------------------------------------------------------------------
(* The arithmetic of the model is exact: no step length leaves a remainder *)

ExactArithmetic ==
    /\ (pc = "ls_loop" /\ ~ls.success /\ ls.it < ls.maxiter /\ IsFinite(ls.p)) =>
          (ls.alpha.n * ls.p.v) % ls.alpha.d = 0
    /\ (pc = "gn_descent" /\ gnv.F_eval # 0) => (gnv.f_eval * SCALE) % Abs(gnv.F_eval) = 0

----------------------------------------------------------------------------
(* Properties of lnsrch_armijo called directly (SpecLS) *)

\* the call has got past its first statements
LsStarted == pc # "ls_enter"

\* the call returned and its direction is a strict descent direction
LsReturnedDescent == pc = "done" /\ ls.dg.k = "fin" /\ ls.dg.v < 0

\* f(x) as the evaluations of f have fixed it
FAt(x) == fmap[x].v

\* pass i of the loop evaluated f at its trial point and found
\*   f(x) < f(x0) + alpha * ftol * <g, p>
TrialSatisfiesArmijo(i) ==
    /\ hist[i].out # "badstep"
    /\ (hist[i].fx.v - FAt(ls.x0)) * hist[i].alpha.d * (10 ^ ls.ftol.e) * SCALE
          < hist[i].alpha.n * ls.ftol.n * ls.g * ls.p.v

\* the returned triple is an accepted step: alpha = bt_factor^k, k < maxiter,
\* x the point the trajectory gave for that alpha, fx = f(x) < f(x0)
ReturnsStep ==
    /\ lsret.alpha.n = 1
    /\ \E k \in 0 .. ls.maxiter - 1 :
         /\ lsret.alpha.d = BtDen ^ k
         /\ Len(hist) = k + 1
    /\ hist[Len(hist)].alpha = lsret.alpha
    /\ [bad |-> FALSE, x |-> lsret.x]
          \in TrajOut(ls.trajectory, ls.x0, ls.p, lsret.alpha)
    /\ lsret.x = hist[Len(hist)].x
    /\ lsret.x \in DOMAIN fmap
    /\ lsret.fx = Fin(FAt(lsret.x))
    /\ lsret.fx.v < FAt(ls.x0)

\* the returned triple is the exhausted search: alpha = 0, x0, f(x0)
ReturnsExhausted ==
    /\ lsret.alpha.n = 0
    /\ lsret.x = ls.x0
    /\ lsret.fx = Fin(FAt(ls.x0))

\* C1: lnsrch_armijo rejects every direction with inner(g, p) >= 0: the call
\* raises InvalidDirection before any trial step is evaluated; in particular
\* at g = 0 every nonzero p makes the call raise.
C1_RejectsNonDescent ==
    (LsStarted /\ Ge0(Inner(ls.g, ls.p))) =>
        (pc = "raised" /\ err = "InvalidDirection" /\ hist = << >>)

\* C2: a call with inner(g, p) < 0 that returns, returns exactly one of an
\* accepted step (alpha = bt_factor^k with k < maxiter, x the trajectory's
\* point, fx = f(x) < f(x0)) and the exhausted triple (x0, 0, f(x0)); it
\* returns the exhausted triple exactly when no pass of the loop satisfied
\* the Armijo condition, and then all maxiter passes were made.
C2_StepOrExhausted ==
    LsReturnedDescent =>
        /\ ReturnsStep \/ ReturnsExhausted
        /\ ~(ReturnsStep /\ ReturnsExhausted)
        /\ ReturnsExhausted <=> (\A i \in 1 .. Len(hist) : ~TrialSatisfiesArmijo(i))
        /\ ReturnsExhausted => Len(hist) = ls.maxiter

\* a call that backtracked at least once and then accepted a step
C2_Witness ==
    /\ LsReturnedDescent
    /\ ReturnsStep
    /\ lsret.alpha.d > 1

\* C6: a BadStep raised in a pass of the loop is not propagated: the pass
\* counts as failed, the next pass tries alpha * bt_factor, and a call whose
\* maxiter passes were all rejected returns (x0, 0, f(x0)).
C6_BadStepCaught ==
    /\ Len(hist) > 0 => err # "BadStep"
    /\ \A i \in 1 .. Len(hist) :
         hist[i].out = "badstep" =>
           /\ pc \in {"ls_loop", "done"}
           /\ i < Len(hist) => hist[i + 1].alpha = [n |-> hist[i].alpha.n,
                                                    d |-> hist[i].alpha.d * BtDen]
           /\ (i = Len(hist) /\ pc = "ls_loop") =>
                /\ ls.it = i
                /\ ls.alpha = [n |-> hist[i].alpha.n, d |-> hist[i].alpha.d * BtDen]
    /\ (pc = "done" /\ \A i \in 1 .. Len(hist) : hist[i].out = "badstep") =>
           ReturnsExhausted /\ Len(hist) = ls.maxiter

\* a call all of whose passes (at least two) raised BadStep, and which returned
C6_Witness ==
    /\ pc = "done"
    /\ Len(hist) >= 2
    /\ \A i \in 1 .. Len(hist) : hist[i].out = "badstep"

----------------------------------------------------------------------------
(* Properties of gn (Spec) *)

\* the line search of the current pass of gn's loop returned alpha = 0
LsExhausted == lsret.alpha.n = 0

\* ||f(x)|| as the evaluations of f have fixed it
ResidualNorm(x) == Abs(fmap[x].v)

\* the four predicates of the classification, on gn's locals
GradBelowTol == LeTol(Fin(gnv.normgrad), gnv.tol, 1)
StepBelowTol == LeTol(gnv.normdx, gnv.tol_normdx, SCALE)
LastIteration == gnv.it = gnv.maxiter - 1
NoProgressMade == GeInt(gnv.f_eval_new, Abs(gnv.f_eval))

\* the code the priority order gives a pass whose line search was exhausted
ExhaustedCode ==
    IF GradBelowTol THEN 0
    ELSE IF StepBelowTol THEN 1
    ELSE IF LastIteration THEN 2
    ELSE 3

\* C3: whenever the line search called inside gn returns alpha = 0, gn
\* returns NoProgress (info = 3), whatever the iteration index, the gradient
\* norm and the step norm.
C3_ExhaustedReturnsNoProgress ==
    (pc = "done" /\ gnv.maxiter >= 1 /\ LsExhausted) => ret.info = 3

\* C3 as amended: whenever the line search called inside gn returns
\* alpha = 0, gn leaves its loop in that pass with x unchanged, and returns
\* 0 if the gradient norm is within tol, else 1 if the step norm is within
\* tol_normdx, else 2 if the pass was the last one (it = maxiter - 1), and
\* NoProgress (3) only otherwise.
C3_ExhaustedStopsLoop ==
    [][ /\ (pc = "gn_update" /\ LsExhausted) => gnv'.x = gnv.x
        /\ (pc = "gn_stop" /\ LsExhausted) => (pc' = "gn_classify" /\ gnv' = gnv)
        /\ (pc = "gn_classify" /\ LsExhausted) =>
              (pc' = "done" /\ ret' = [x |-> gnv.x, info |-> ExhaustedCode])
      ]_vars

\* the first of two passes had its line search exhausted and gn returned NoProgress
C3_Witness ==
    /\ pc = "done"
    /\ LsExhausted
    /\ gnv.maxiter = 2
    /\ gnv.it = 0
    /\ ret.info = 3

\* gn was started with maxiter >= 1 at a point where the Jacobian is zero
ZeroJacobianStart ==
    /\ gnv.maxiter >= 1
    /\ gnv.x0 \in DOMAIN Fmap
    /\ Fmap[gnv.x0] = 0

\* the descent test of the current pass has been made
DescentTested == pc \in {"ls_enter", "ls_loop", "gn_update", "gn_stop", "gn_classify", "done"}

\* C4: gn started where the Jacobian (hence the gradient) is zero, called as
\* in the example with the default trajectory and direction solver, takes
\* the fallback branch, raises nothing, and returns ConvergedOnStepSize (1)
\* or NoProgress (3).
C4_ZeroJacobianReturns1Or3 ==
    (ZeroJacobianStart /\ gnv.trajectory = "default" /\ gnv.gnsolver = "default") =>
        /\ pc # "raised"
        /\ DescentTested => gnv.fallback
        /\ pc = "done" => ret.info \in {1, 3}

\* C4 as amended: gn started where the Jacobian is zero, with the default
\* trajectory, takes the fallback branch (for every finite dx of the
\* direction solver), raises nothing, and returns the start point with
\* Converged (0).
C4_ZeroJacobianConverged ==
    (ZeroJacobianStart /\ gnv.trajectory = "default") =>
        /\ pc # "raised"
        /\ gnv.grad = 0
        /\ (DescentTested /\ IsFinite(gnv.solved)) =>
              (gnv.fallback /\ gnv.dx = Fin(0))
        /\ pc = "done" => ret = [x |-> gnv.x0, info |-> 0]

\* the example's call returned: zero Jacobian, defaults, fallback taken, code 0
C4_Witness ==
    /\ pc = "done"
    /\ ZeroJacobianStart
    /\ gnv.trajectory = "default"
    /\ gnv.gnsolver = "default"
    /\ gnv.fallback
    /\ LsExhausted
    /\ ret.info = 0

\* C5: for maxiter <= 0, gn returns (x0, 4) and calls none of f, F, the
\* direction solver, the trajectory and the line search.
C5_DegenerateReturn ==
    gnv.maxiter <= 0 =>
        /\ pc \in {"gn_entry", "done"}
        /\ calls = NoCalls
        /\ DOMAIN fmap = {}
        /\ DOMAIN Fmap = {}
        /\ pc = "done" => ret = [x |-> gnv.x0, info |-> 4]

\* gn called with maxiter = 0 has returned
C5_Witness ==
    /\ pc = "done"
    /\ gnv.maxiter = 0
    /\ ret.info = 4

\* C7: in every pass of gn's loop x becomes the line search's point only if
\* the objective value the line search reports is strictly below ||f(x)||;
\* otherwise x is unchanged and the loop is left in that pass.  So ||f(x)||
\* never increases, and the returned point's residual norm is at most that
\* of x0.
C7_UpdateOnlyOnDecrease ==
    [][ /\ pc = "gn_update" =>
              IF lsret.fx.k = "fin" /\ lsret.fx.v < ResidualNorm(gnv.x)
              THEN gnv'.x = lsret.x /\ ~gnv'.residual_increased
              ELSE gnv'.x = gnv.x /\ gnv'.residual_increased
        /\ (pc = "gn_stop" /\ gnv.residual_increased) => pc' = "gn_classify"
        /\ (gnv.x \in DOMAIN fmap /\ gnv'.x # gnv.x) =>
              /\ pc = "gn_update"
              /\ Abs(fmap'[gnv'.x].v) < ResidualNorm(gnv.x)
        /\ (pc = "gn_classify" /\ pc' = "done") =>
              ResidualNorm(ret'.x) <= ResidualNorm(gnv.x0)
      ]_vars

\* the first pass adopted a new point and the second made no progress
C7_Witness ==
    /\ pc = "gn_stop"
    /\ gnv.it = 1
    /\ gnv.x # gnv.x0
    /\ gnv.residual_increased

\* C8: however gn's loop is left, at least one of the four termination
\* predicates holds at the classification, and the final raise of
\* 'Stopping criteria not determined!' is never reached.
C8_ClassificationTotal ==
    /\ pc = "gn_classify" =>
          (GradBelowTol \/ StepBelowTol \/ LastIteration \/ NoProgressMade)
    /\ err # "Stopping criteria not determined!"

\* the loop ran out of passes with progress made and neither tolerance met
C8_Witness ==
    /\ pc = "gn_classify"
    /\ gnv.maxiter = 2
    /\ LastIteration
    /\ ~GradBelowTol
    /\ ~StepBelowTol
    /\ ~NoProgressMade

\* C9: when the direction solver returns a dx that is not finite, gn goes no
\* further than its finiteness check: it raises IllConditionedSystem there,
\* and makes no descent test, line search, update or classification with
\* that dx.
C9_FailsFastOnNonFiniteDx ==
    ~IsFinite(gnv.solved) =>
        \/ pc = "gn_descent"
        \/ pc = "raised" /\ err = "IllConditionedSystem"

\* C10: the direction gn hands to the line search satisfies
\* inner(gradient, dx) <= 0 for the gradient F(x)^T f(x) at the current x:
\* it is the solver's dx with inner(gradient, dx) < 0, or -gradient.  So the
\* line search's non-descent check never raises inside gn.
C10_DirectionNeverAscends ==
    /\ (pc = "ls_enter" /\ IsFinite(gnv.solved)) =>
          /\ ls.x0 = gnv.x
          /\ ls.g = Fmap[gnv.x] * fmap[gnv.x].v
          /\ IsFinite(ls.p)
          /\ ls.g * ls.p.v <= 0
          /\ \/ ls.p = gnv.solved /\ ls.g * ls.p.v < 0
             \/ ls.p = Fin(-ls.g * SCALE)
    /\ err # "InvalidDirection"

\* the solver's dx pointed uphill at a nonzero gradient and was replaced
C10_Witness ==
    /\ pc = "ls_enter"
    /\ IsFinite(gnv.solved)
    /\ gnv.fallback
    /\ gnv.grad # 0
    /\ gnv.solved # ls.p

====
